---- MODULE Spec2Model ----
(***************************************************************************)
(* Model of the RPC broker of hololinked (server/rpc_server.py) and of the *)
(* frames it exchanges (server/protocols/zmq/message.py).                  *)
(*                                                                         *)
(* Tasks of the broker:                                                    *)
(*   Listener    RPCServer.recv_requests, one per endpoint                 *)
(*   timers      RPCServer.process_timeouts, one per supervised phase      *)
(*   Dispatcher  RPCServer.tunnel_message_to_things, one per Thing         *)
(*   Executor    RPCServer.run_single_target, one per Thing                *)
(*                                                                         *)
(* Every action is the code a task runs between two suspension points      *)
(* (await).  Time is abstract: a timer that waits on an unset gate may     *)
(* expire at any step.  A message is identified by its message id; the     *)
(* ids of distinct messages differ (uuid4).  Statements that only write    *)
(* to the log are left out.                                                *)
(*                                                                         *)
(* A message is a record of the parts rpc_server.py reads from it, named   *)
(* after the wire layout (CM_INDEX_ADDRESS, CM_INDEX_MESSAGE_TYPE,         *)
(* CM_INDEX_MESSAGE_ID, CM_INDEX_SERVER_EXEC_CONTEXT, CM_INDEX_THING_ID);  *)
(* the server execution context is kept decoded, or marked undecodable.    *)
(* In Spec the sockets do not fail: recv_multipart and send_multipart      *)
(* return.  process_timeouts catches the TimeoutError that wait_for        *)
(* raises (Python 3.11 and later).                                         *)
(*                                                                         *)
(* Specifications:                                                        *)
(*   Spec      one Listener, a started broker, 9-part frames              *)
(*   SpecWire  two Listeners, and frames cut short                        *)
(*   SpecLife  the lifecycle operations (run, poll, stop_polling, exit,   *)
(*             instantiate) and an Executor that may end                  *)
(*   FairLife  SpecLife with weak fairness of the broker's tasks          *)
(*   SpecOps   the operations on the properties of a Thing                *)
(*   SpecFail  a Listener whose recv_multipart may raise                  *)
(*   SpecMessage  the accessors of RequestMessage and ResponseMessage     *)
(*             applied to the frames of craft_from_arguments              *)
(*   FairStuck an Executor that never answers, timers that expire         *)
(*   FairInbox Listener, Dispatcher and an Executor that answers, with    *)
(*             weak fairness of the tasks of the event loop               *)
(***************************************************************************)
EXTENDS Integers, Sequences, FiniteSets, TLC

\* number of messages the clients send in one run
MaxReq == 3

\* message types (message.py 12-23)
HANDSHAKE == "HANDSHAKE"
OPERATION == "OPERATION"
EXIT == "EXIT"
REPLY == "REPLY"
TIMEOUT == "TIMEOUT"
EXCEPTION == "EXCEPTION"
INVALID_MESSAGE == "INVALID_MESSAGE"
INTERRUPT == "INTERRUPT"
EMPTY_BYTE == ""

\* the operation tokens execute_once compares with
readProperty == "readProperty"
writeProperty == "writeProperty"
deleteProperty == "deleteProperty"
invokeAction == "invokeAction"
readMultipleProperties == "readMultipleProperties"
readAllProperties == "readAllProperties"
writeMultipleProperties == "writeMultipleProperties"
writeAllProperties == "writeAllProperties"

\* positions of the parts of a client's message (message.py 55-64)
CM_INDEX_ADDRESS == 0
CM_INDEX_MESSAGE_ID == 2
CM_INDEX_SERVER_EXEC_CONTEXT == 3
CM_INDEX_THING_ID == 4
CM_INDEX_THING_EXEC_CONTEXT == 8
CM_MESSAGE_LENGTH == CM_INDEX_THING_EXEC_CONTEXT + 1

\* Python's None
None == "None"

\* the Things given to RPCServer.__init__ (keys of self.things)
Things == {"t1"}
\* thing ids a client may write into a request
ThingIds == Things \cup {"ghost"}
\* addresses the transport assigns to clients
Clients == {"c1"}
\* a duration in seconds, as opposed to None
Seconds == "T"

Ids == 1..MaxReq

\* the endpoints the broker listens on (one Listener each)
Endpoints == {"inproc"}

VARIABLES
    req,            \* the messages received so far, by message id (= position)
    listener,       \* per endpoint: the state of its recv_requests loop
    handshakeTasks, \* ids with a pending _handshake task
    invalidTasks,   \* ids with a pending _handle_invalid_message task
    invT,           \* per id: the invokation timer (process_timeouts task)
    exeT,           \* per id: the execution timer (process_timeouts task)
    inbox,          \* per Thing: instance._zmq_messages
    msgEvent,       \* per Thing: instance._zmq_messages_event
    pc,             \* per Thing: where tunnel_message_to_things is suspended
    cur,            \* per Thing: the message the Dispatcher holds (0: none)
    origAddr,       \* per Thing: the Dispatcher's local original_address
    reply,          \* per Thing: the Dispatcher's local reply
    toExec,         \* per Thing: frames sent on _inproc_client, not yet received
    fromExec,       \* per Thing: frames sent by the Executor, not yet received
    executing,      \* per Thing: the message run_single_target executes (0: none)
    sent,           \* the frames sent to clients, in the order of sending
    fwd,            \* the ids forwarded to an Executor, in the order of forwarding
    enq,            \* per Thing: the ids the Listeners appended to its inbox, in order
    executor,       \* per Thing: the state of its run_single_target loop
    stop_poll,      \* self.stop_poll
    things,         \* self.things: the registry, from thing id to Thing
    given,          \* the list of Things passed to RPCServer.__init__
    attached,       \* the Things instantiate was called for
    store,          \* per Thing: the values of its properties
    failures,       \* the number of times recv_multipart has raised
    frame,          \* a multipart frame handed to RequestMessage
    result          \* what an accessor of the frame returned

vars == <<req, listener, handshakeTasks, invalidTasks, invT, exeT, inbox, msgEvent,
          pc, cur, origAddr, reply, toExec, fromExec, executing, sent, fwd, enq,
          executor, stop_poll, things, given, attached, store, failures, frame, result>>

\* what only the lifecycle operations (run, poll, stop_polling, exit, instantiate)
\* and the end of an Executor change
lifecycle == <<stop_poll, things, given, attached>>

\* what only a failing socket and the accessors of a message change
aux == <<failures, frame, result>>

----------------------------------------------------------------------------
\* Messages

\* a server execution context that json.loads cannot decode (EMPTY_BYTE)
BadCtx == [ok |-> FALSE, inv |-> None, exe |-> None, oneway |-> FALSE]

\* the decoded server execution contexts: the values of
\* .get("invokation_timeout", None), .get("execution_timeout", None), .get("oneway", False)
ExecCtxs == [ok : {TRUE}, inv : {None, Seconds}, exe : {None, Seconds}, oneway : BOOLEAN]

\* the context json.loads(b'{}') gives: a dict with no key
EMPTY_DICT == [k \in {} |-> None]

\* the context craft_from_arguments puts on the wire when the caller gives
\* none: both timeouts are a duration (5 seconds)
default_server_execution_context ==
    [invokation_timeout |-> Seconds, execution_timeout |-> Seconds, oneway |-> FALSE]

\* dict.get(key, default)
get(d, key, default) == IF key \in DOMAIN d THEN d[key] ELSE default

\* what the broker reads from a decoded context:
\* .get("invokation_timeout", None), .get("execution_timeout", None), .get("oneway", False)
decode(d) ==
    [ok |-> TRUE,
     inv |-> get(d, "invokation_timeout", None),
     exe |-> get(d, "execution_timeout", None),
     oneway |-> get(d, "oneway", FALSE)]

\* the context b'{}' of a handshake written by hand
EmptyCtx == decode(EMPTY_DICT)

\* a context that asks for an invokation timeout only
TimedCtx == decode([invokation_timeout |-> Seconds])

\* RequestMessage.craft_with_message_type: every part after the message id is EMPTY_BYTE
craft_with_message_type(server_id, message_type) ==
    [addr |-> server_id, type |-> message_type, ctx |-> BadCtx, thing |-> EMPTY_BYTE,
     objekt |-> EMPTY_BYTE, operation |-> EMPTY_BYTE, payload |-> EMPTY_BYTE,
     parts |-> CM_MESSAGE_LENGTH]

\* RequestMessage.craft_from_arguments
craft_from_arguments(server_id, thing_id, objekt, operation, payload, server_execution_context) ==
    [addr |-> server_id, type |-> OPERATION, ctx |-> server_execution_context,
     thing |-> thing_id, objekt |-> objekt, operation |-> operation,
     payload |-> payload, parts |-> CM_MESSAGE_LENGTH]

\* a request to invoke the action "run" of a Thing, with no arguments
invoke(server_id, thing_id, server_execution_context) ==
    craft_from_arguments(server_id, thing_id, "run", invokeAction, EMPTY_BYTE,
                         server_execution_context)

\* the multipart frame has a part at this position (no IndexError)
Has(message, index) == index < message.parts

\* what a client may put on the wire: the frames the two craft methods build,
\* HANDSHAKE and EXIT frames written by hand that carry a context and a thing id,
\* OPERATION frames with an unknown thing id or an undecodable context, and a
\* frame of a type the Listener does not name
Inputs ==
    {craft_with_message_type(c, HANDSHAKE) : c \in Clients}
    \cup {craft_with_message_type(c, EXIT) : c \in Clients}
    \cup {[invoke(c, t, TimedCtx) EXCEPT !.type = ty] :
              c \in Clients, t \in Things, ty \in {HANDSHAKE, EXIT}}
    \cup {invoke(c, t, x) : c \in Clients, t \in Things, x \in ExecCtxs}
    \cup {invoke(c, t, x) : c \in Clients, t \in ThingIds \ Things,
              x \in {EmptyCtx, TimedCtx}}
    \cup {invoke(c, t, BadCtx) : c \in Clients, t \in Things}
    \cup {[invoke(c, t, EmptyCtx) EXCEPT !.type = INTERRUPT] :
              c \in Clients, t \in Things}

\* mutant: every frame is sent on the socket of the inproc server
Frame_on_inproc(ep, address, message_type, message_id, data) ==
    [ep |-> "inproc", addr |-> address, type |-> message_type, id |-> message_id,
     data |-> data]

\* craft_response_from_arguments, and the socket the frame is sent on
Frame(ep, address, message_type, message_id, data) ==
    [ep |-> ep, addr |-> address, type |-> message_type, id |-> message_id, data |-> data]

NoReply == [type |-> EMPTY_BYTE, id |-> 0, addr |-> EMPTY_BYTE, data |-> EMPTY_BYTE]

\* instance.properties of a Thing, with the values the properties have at
\* the start; the property "level" is declared with a delete hook
InitialValues == [level |-> "0"]
DeleteHooks == {"level"}

\* Thing objects: two distinct Things that carry the same id, and one with an
\* id of its own
lamp == [name |-> "lamp", id |-> "t1"]
twin == [name |-> "twin", id |-> "t1"]
probe == [name |-> "probe", id |-> "t2"]

\* a dict with no key
EmptyDict == [k \in {} |-> lamp]

\* "self.things[bytes(thing.id, encoding='utf-8')] = thing"
SetItem(d, key, value) ==
    [k \in DOMAIN d \cup {key} |-> IF k = key THEN value ELSE d[k]]

\* "self.things = dict()" and the loop "for thing in things" of __init__
RECURSIVE Registry(_)
Registry(ts) ==
    IF ts = << >>
    THEN EmptyDict
    ELSE LET n == Len(ts) IN SetItem(Registry(SubSeq(ts, 1, n - 1)), ts[n].id, ts[n])

\* no accessor of a RequestMessage has been called
NoResult == [op |-> None, raised |-> None, value |-> << >>]

\* the broker after RPCServer.__init__(things=ts) with a Listener for each of
\* the endpoints; started: run() has started the loops
Broker(endpoints, ts, started) ==
    /\ req = << >>
    /\ listener = [e \in endpoints |-> IF started THEN "running" ELSE "created"]
    /\ handshakeTasks = {}
    /\ invalidTasks = {}
    /\ invT = [i \in Ids |-> "none"]
    /\ exeT = [i \in Ids |-> "none"]
    /\ inbox = [t \in Things |-> << >>]
    /\ msgEvent = [t \in Things |-> FALSE]
    /\ pc = [t \in Things |-> IF started THEN "top" ELSE "created"]
    /\ cur = [t \in Things |-> 0]
    /\ origAddr = [t \in Things |-> EMPTY_BYTE]
    /\ reply = [t \in Things |-> NoReply]
    /\ toExec = [t \in Things |-> << >>]
    /\ fromExec = [t \in Things |-> << >>]
    /\ executing = [t \in Things |-> 0]
    /\ sent = << >>
    /\ fwd = << >>
    /\ enq = [t \in Things |-> << >>]
    /\ executor = [t \in Things |-> IF started THEN "running" ELSE "created"]
    /\ stop_poll = FALSE
    /\ given = ts
    /\ things = Registry(ts)
    /\ attached = {}
    /\ store = [t \in Things |-> InitialValues]
    /\ failures = 0

\* the broker, and no message object under inspection
Constructed(endpoints, ts, started) ==
    /\ Broker(endpoints, ts, started)
    /\ frame = << >>
    /\ result = NoResult

Init == Constructed(Endpoints, <<lamp>>, TRUE)

----------------------------------------------------------------------------
\* Listener: one turn of the loop of recv_requests on endpoint ep

\* mutant: the Listener puts the message at the head of the inbox
appendleft(q, x) == <<x>> \o q

\* deque.append
append(q, x) == Append(q, x)

\* mutant: the HANDSHAKE branch is never taken
IsHandshake_never(message_type) == FALSE

\* "message_type == HANDSHAKE"
IsHandshake(message_type) == message_type = HANDSHAKE

\* "message_type == EXIT"
IsExit(message_type) == message_type = EXIT

\* wire: the frames the clients may send
recv_requests(ep, wire) ==
    /\ listener[ep] = "running"
    /\ Len(req) < MaxReq
    /\ \E m \in wire :
        LET id == Len(req) + 1
            message == [addr |-> m.addr, type |-> m.type, ctx |-> m.ctx,
                        thing |-> m.thing, objekt |-> m.objekt,
                        operation |-> m.operation, payload |-> m.payload,
                        parts |-> m.parts, ep |-> ep, client |-> m.addr]
        IN
        /\ req' = Append(req, message)
        /\ IF ~Has(message, CM_INDEX_SERVER_EXEC_CONTEXT) \/ ~message.ctx.ok
           THEN \* message.header raises: the except branch
                /\ invalidTasks' = invalidTasks \cup {id}
                /\ UNCHANGED <<listener, handshakeTasks, invT, inbox, msgEvent, enq>>
           ELSE IF IsHandshake(message.type)
           THEN /\ handshakeTasks' = handshakeTasks \cup {id}
                /\ UNCHANGED <<listener, invalidTasks, invT, inbox, msgEvent, enq>>
           ELSE IF IsExit(message.type)
           THEN /\ listener' = [listener EXCEPT ![ep] = "exited"]
                /\ UNCHANGED <<handshakeTasks, invalidTasks, invT, inbox, msgEvent, enq>>
           ELSE \* every other message type
                /\ invT' = IF message.ctx.inv # None
                           THEN [invT EXCEPT ![id] = "pending"]
                           ELSE invT
                /\ IF Has(message, CM_INDEX_THING_ID) /\ message.thing \in DOMAIN things
                   THEN /\ inbox' = [inbox EXCEPT ![message.thing] = append(@, id)]
                        /\ enq' = [enq EXCEPT ![message.thing] = Append(@, id)]
                        /\ msgEvent' = [msgEvent EXCEPT ![message.thing] = TRUE]
                        /\ UNCHANGED listener
                   ELSE \* message.thing_id raises IndexError, or self.things[...]
                        \* raises KeyError, outside the try
                        /\ listener' = [listener EXCEPT ![ep] = "dead"]
                        /\ UNCHANGED <<inbox, msgEvent, enq>>
                /\ UNCHANGED <<handshakeTasks, invalidTasks>>
    /\ UNCHANGED <<executor, lifecycle, store, aux>>
    /\ UNCHANGED <<exeT, pc, cur, origAddr, reply, toExec, fromExec, executing, sent, fwd>>

\* the task the Listener created for a HANDSHAKE message
_handshake(id) ==
    /\ id \in handshakeTasks
    /\ handshakeTasks' = handshakeTasks \ {id}
    /\ sent' = Append(sent, Frame(req[id].ep, req[id].addr, HANDSHAKE, id, "{}"))
    /\ UNCHANGED <<executor, lifecycle, store, aux>>
    /\ UNCHANGED <<req, listener, invalidTasks, invT, exeT, inbox, msgEvent, pc, cur,
                   origAddr, reply, toExec, fromExec, executing, fwd, enq>>

\* the task the Listener created in its except branch
_handle_invalid_message(id) ==
    /\ id \in invalidTasks
    /\ invalidTasks' = invalidTasks \ {id}
    /\ sent' = IF Has(req[id], CM_INDEX_ADDRESS) /\ Has(req[id], CM_INDEX_MESSAGE_ID)
               THEN Append(sent, Frame(req[id].ep, req[id].addr, INVALID_MESSAGE, id,
                                       "exception"))
               ELSE \* original_client_message[...] raises IndexError in the task
                    sent
    /\ UNCHANGED <<executor, lifecycle, store, aux>>
    /\ UNCHANGED <<req, listener, handshakeTasks, invT, exeT, inbox, msgEvent, pc, cur,
                   origAddr, reply, toExec, fromExec, executing, fwd, enq>>

----------------------------------------------------------------------------
\* Timeout supervisor: process_timeouts.  A timer is "pending" while it waits on
\* an unset gate, "set" once the gate is set and the task has not yet run, and
\* "false" or "true" once the task has returned that value.

\* mutant: after sending TIMEOUT the task returns a false value
process_timeouts_expired_returns_false(id, timeout_typ) ==
    /\ id \in 1..Len(req)
    /\ IF timeout_typ = "invokation"
       THEN /\ invT[id] = "pending"
            /\ invT' = [invT EXCEPT ![id] = "false"]
            /\ UNCHANGED exeT
       ELSE /\ exeT[id] = "pending"
            /\ exeT' = [exeT EXCEPT ![id] = "false"]
            /\ UNCHANGED invT
    /\ sent' = Append(sent, Frame(req[id].ep, req[id].addr, TIMEOUT, id, timeout_typ))
    /\ UNCHANGED <<executor, lifecycle, store, aux>>
    /\ UNCHANGED <<req, listener, handshakeTasks, invalidTasks, inbox, msgEvent, pc, cur,
                   origAddr, reply, toExec, fromExec, executing, fwd, enq>>

\* mutant: an invokation timer does not expire while a Dispatcher awaits the
\* reply of an Executor
process_timeouts_expired_unless_busy(id, timeout_typ) ==
    /\ id \in 1..Len(req)
    /\ IF timeout_typ = "invokation"
       THEN /\ invT[id] = "pending"
            /\ \A t \in Things : pc[t] # "await_reply"
            /\ invT' = [invT EXCEPT ![id] = "true"]
            /\ UNCHANGED exeT
       ELSE /\ exeT[id] = "pending"
            /\ exeT' = [exeT EXCEPT ![id] = "true"]
            /\ UNCHANGED invT
    /\ sent' = Append(sent, Frame(req[id].ep, req[id].addr, TIMEOUT, id, timeout_typ))
    /\ UNCHANGED <<executor, lifecycle, store, aux>>
    /\ UNCHANGED <<req, listener, handshakeTasks, invalidTasks, inbox, msgEvent, pc, cur,
                   origAddr, reply, toExec, fromExec, executing, fwd, enq>>

\* wait_for raises TimeoutError: the frame is sent, the task returns True
process_timeouts_expired(id, timeout_typ) ==
    /\ id \in 1..Len(req)
    /\ IF timeout_typ = "invokation"
       THEN /\ invT[id] = "pending"
            /\ invT' = [invT EXCEPT ![id] = "true"]
            /\ UNCHANGED exeT
       ELSE /\ exeT[id] = "pending"
            /\ exeT' = [exeT EXCEPT ![id] = "true"]
            /\ UNCHANGED invT
    /\ sent' = Append(sent, Frame(req[id].ep, req[id].addr, TIMEOUT, id, timeout_typ))
    /\ UNCHANGED <<executor, lifecycle, store, aux>>
    /\ UNCHANGED <<req, listener, handshakeTasks, invalidTasks, inbox, msgEvent, pc, cur,
                   origAddr, reply, toExec, fromExec, executing, fwd, enq>>

\* mutant: the task sends TIMEOUT although its gate was set in time
process_timeouts_released_sends(id, timeout_typ) ==
    /\ id \in 1..Len(req)
    /\ IF timeout_typ = "invokation"
       THEN /\ invT[id] = "set"
            /\ invT' = [invT EXCEPT ![id] = "false"]
            /\ UNCHANGED exeT
       ELSE /\ exeT[id] = "set"
            /\ exeT' = [exeT EXCEPT ![id] = "false"]
            /\ UNCHANGED invT
    /\ sent' = Append(sent, Frame(req[id].ep, req[id].addr, TIMEOUT, id, timeout_typ))
    /\ UNCHANGED <<executor, lifecycle, store, aux>>
    /\ UNCHANGED <<req, listener, handshakeTasks, invalidTasks, inbox, msgEvent, pc, cur,
                   origAddr, reply, toExec, fromExec, executing, fwd, enq>>

\* the gate was set within the timeout: the task returns False
process_timeouts_released(id, timeout_typ) ==
    /\ id \in 1..Len(req)
    /\ IF timeout_typ = "invokation"
       THEN /\ invT[id] = "set"
            /\ invT' = [invT EXCEPT ![id] = "false"]
            /\ UNCHANGED exeT
       ELSE /\ exeT[id] = "set"
            /\ exeT' = [exeT EXCEPT ![id] = "false"]
            /\ UNCHANGED invT
    /\ UNCHANGED <<executor, lifecycle, store, aux>>
    /\ UNCHANGED <<req, listener, handshakeTasks, invalidTasks, inbox, msgEvent, pc, cur,
                   origAddr, reply, toExec, fromExec, executing, sent, fwd, enq>>

\* asyncio.Event.set() on the gate of a timer
SetGate(timers, id) ==
    IF timers[id] = "pending" THEN [timers EXCEPT ![id] = "set"] ELSE timers

----------------------------------------------------------------------------
\* Dispatcher of Thing t: tunnel_message_to_things(instance)

\* mutant: the Dispatcher waits for the inbox event without looking at the inbox
tunnel_wait_unchecked(t) ==
    /\ pc[t] = "top"
    /\ ~stop_poll
    /\ ~msgEvent[t]
    /\ pc' = [pc EXCEPT ![t] = "waiting"]
    /\ UNCHANGED <<executor, lifecycle, store, aux>>
    /\ UNCHANGED <<req, listener, handshakeTasks, invalidTasks, invT, exeT, inbox, msgEvent,
                   cur, origAddr, reply, toExec, fromExec, executing, sent, fwd, enq>>

\* the inbox is empty and the inbox event is not set: the Dispatcher suspends
tunnel_wait(t) ==
    /\ pc[t] = "top"
    /\ ~stop_poll
    /\ inbox[t] = << >>
    /\ ~msgEvent[t]
    /\ pc' = [pc EXCEPT ![t] = "waiting"]
    /\ UNCHANGED <<executor, lifecycle, store, aux>>
    /\ UNCHANGED <<req, listener, handshakeTasks, invalidTasks, invT, exeT, inbox, msgEvent,
                   cur, origAddr, reply, toExec, fromExec, executing, sent, fwd, enq>>

\* _zmq_messages_event.wait() returns: clear the event and go round the loop
tunnel_wake(t) ==
    /\ \/ pc[t] = "waiting"
       \/ pc[t] = "top" /\ inbox[t] = << >> /\ ~stop_poll
    /\ msgEvent[t]
    /\ msgEvent' = [msgEvent EXCEPT ![t] = FALSE]
    /\ pc' = [pc EXCEPT ![t] = "top"]
    /\ UNCHANGED <<executor, lifecycle, store, aux>>
    /\ UNCHANGED <<req, listener, handshakeTasks, invalidTasks, invT, exeT, inbox,
                   cur, origAddr, reply, toExec, fromExec, executing, sent, fwd, enq>>

\* mutant: the Dispatcher forwards and goes round the loop without awaiting the reply
Forward_no_await(t, id) ==
    /\ origAddr' = [origAddr EXCEPT ![t] = req[id].addr]
    /\ req' = [req EXCEPT ![id].addr = req[id].thing]
    /\ toExec' = [toExec EXCEPT ![t] = Append(@, id)]
    /\ fwd' = Append(fwd, id)
    /\ exeT' = exeT
    /\ cur' = [cur EXCEPT ![t] = 0]
    /\ pc' = [pc EXCEPT ![t] = "top"]

\* the address rewrite, the send to the Executor and the start of the
\* execution timer; the Dispatcher then awaits the Executor's reply
Forward(t, id) ==
    /\ origAddr' = [origAddr EXCEPT ![t] = req[id].addr]
    /\ req' = [req EXCEPT ![id].addr = req[id].thing]
    /\ toExec' = [toExec EXCEPT ![t] = Append(@, id)]
    /\ fwd' = Append(fwd, id)
    /\ exeT' = IF req[id].ctx.exe # None THEN [exeT EXCEPT ![id] = "pending"] ELSE exeT
    /\ cur' = [cur EXCEPT ![t] = id]
    /\ pc' = [pc EXCEPT ![t] = "await_reply"]

\* mutant: the verdict of the timer is ignored
never_timed_out(timers, id) == FALSE

\* "<gate> is not None and <phase>_timed_out": the timer sent TIMEOUT
timed_out(timers, id) == timers[id] = "true"

\* mutant: the Dispatcher pops the next message while it still awaits the reply
\* of the Executor to the one before
tunnel_pop_while_awaiting(t) ==
    /\ pc[t] \in {"top", "await_reply"}
    /\ ~stop_poll
    /\ inbox[t] # << >>
    /\ LET id == Head(inbox[t]) IN
        /\ inbox' = [inbox EXCEPT ![t] = Tail(@)]
        /\ IF invT[id] # "none"
           THEN /\ invT' = SetGate(invT, id)
                /\ cur' = [cur EXCEPT ![t] = id]
                /\ pc' = [pc EXCEPT ![t] = "await_inv"]
                /\ UNCHANGED <<req, exeT, origAddr, toExec, fwd>>
           ELSE /\ Forward(t, id)
                /\ UNCHANGED invT
    /\ UNCHANGED <<executor, lifecycle, store, aux>>
    /\ UNCHANGED <<listener, handshakeTasks, invalidTasks, msgEvent, reply, fromExec,
                   executing, sent, enq>>

\* popleft; with a gate, set it and await the invokation timer
tunnel_pop(t) ==
    /\ pc[t] = "top"
    /\ ~stop_poll
    /\ inbox[t] # << >>
    /\ LET id == Head(inbox[t]) IN
        /\ inbox' = [inbox EXCEPT ![t] = Tail(@)]
        /\ IF invT[id] # "none"
           THEN /\ invT' = SetGate(invT, id)
                /\ cur' = [cur EXCEPT ![t] = id]
                /\ pc' = [pc EXCEPT ![t] = "await_inv"]
                /\ UNCHANGED <<req, exeT, origAddr, toExec, fwd>>
           ELSE /\ Forward(t, id)
                /\ UNCHANGED invT
    /\ UNCHANGED <<executor, lifecycle, store, aux>>
    /\ UNCHANGED <<listener, handshakeTasks, invalidTasks, msgEvent, reply, fromExec,
                   executing, sent, enq>>

\* the invokation timer has returned: drop the message or forward it
tunnel_invoked(t) ==
    /\ pc[t] = "await_inv"
    /\ invT[cur[t]] \in {"true", "false"}
    /\ IF timed_out(invT, cur[t])
       THEN /\ pc' = [pc EXCEPT ![t] = "top"]
            /\ cur' = [cur EXCEPT ![t] = 0]
            /\ UNCHANGED <<req, exeT, origAddr, toExec, fwd>>
       ELSE Forward(t, cur[t])
    /\ UNCHANGED <<executor, lifecycle, store, aux>>
    /\ UNCHANGED <<listener, handshakeTasks, invalidTasks, invT, inbox, msgEvent, reply,
                   fromExec, executing, sent, enq>>

\* mutant: the reply is sent unless the request is oneway, timed out or not
Deliver_after_timeout(t, id, r, execution_timed_out) ==
    /\ sent' = IF req[id].ctx.oneway
               THEN sent
               ELSE Append(sent, Frame(req[id].ep, r.addr, r.type, r.id, r.data))
    /\ pc' = [pc EXCEPT ![t] = "top"]
    /\ cur' = [cur EXCEPT ![t] = 0]
    /\ reply' = [reply EXCEPT ![t] = NoReply]

\* the end of one turn: drop the reply (execution timed out, or oneway) or
\* send it on the origin socket
Deliver(t, id, r, execution_timed_out) ==
    /\ sent' = IF execution_timed_out \/ req[id].ctx.oneway
               THEN sent
               ELSE Append(sent, Frame(req[id].ep, r.addr, r.type, r.id, r.data))
    /\ pc' = [pc EXCEPT ![t] = "top"]
    /\ cur' = [cur EXCEPT ![t] = 0]
    /\ reply' = [reply EXCEPT ![t] = NoReply]

\* mutant: execution_timed_out, initialised to True, decides also when there
\* is no execution timer
tunnel_reply_drops_untimed(t) ==
    /\ pc[t] = "await_reply"
    /\ fromExec[t] # << >>
    /\ fromExec' = [fromExec EXCEPT ![t] = Tail(@)]
    /\ LET r == [Head(fromExec[t]) EXCEPT !.addr = origAddr[t]] IN
        IF exeT[cur[t]] # "none"
        THEN /\ exeT' = SetGate(exeT, cur[t])
             /\ reply' = [reply EXCEPT ![t] = r]
             /\ pc' = [pc EXCEPT ![t] = "await_exec"]
             /\ UNCHANGED <<cur, sent>>
        ELSE /\ Deliver(t, cur[t], r, TRUE)
             /\ UNCHANGED exeT
    /\ UNCHANGED <<executor, lifecycle, store, aux>>
    /\ UNCHANGED <<req, listener, handshakeTasks, invalidTasks, invT, inbox, msgEvent,
                   origAddr, toExec, executing, fwd, enq>>

\* mutant: the reply is sent with the address it came with, the thing id
tunnel_reply_keeps_address(t) ==
    /\ pc[t] = "await_reply"
    /\ fromExec[t] # << >>
    /\ fromExec' = [fromExec EXCEPT ![t] = Tail(@)]
    /\ LET r == Head(fromExec[t]) IN
        IF exeT[cur[t]] # "none"
        THEN /\ exeT' = SetGate(exeT, cur[t])
             /\ reply' = [reply EXCEPT ![t] = r]
             /\ pc' = [pc EXCEPT ![t] = "await_exec"]
             /\ UNCHANGED <<cur, sent>>
        ELSE /\ Deliver(t, cur[t], r, FALSE)
             /\ UNCHANGED exeT
    /\ UNCHANGED <<executor, lifecycle, store, aux>>
    /\ UNCHANGED <<req, listener, handshakeTasks, invalidTasks, invT, inbox, msgEvent,
                   origAddr, toExec, executing, fwd, enq>>

\* recv_multipart on the Executor's socket returns a frame
tunnel_reply(t) ==
    /\ pc[t] = "await_reply"
    /\ fromExec[t] # << >>
    /\ fromExec' = [fromExec EXCEPT ![t] = Tail(@)]
    /\ LET r == [Head(fromExec[t]) EXCEPT !.addr = origAddr[t]] IN
        IF exeT[cur[t]] # "none"
        THEN /\ exeT' = SetGate(exeT, cur[t])
             /\ reply' = [reply EXCEPT ![t] = r]
             /\ pc' = [pc EXCEPT ![t] = "await_exec"]
             /\ UNCHANGED <<cur, sent>>
        ELSE /\ Deliver(t, cur[t], r, FALSE)
             /\ UNCHANGED exeT
    /\ UNCHANGED <<executor, lifecycle, store, aux>>
    /\ UNCHANGED <<req, listener, handshakeTasks, invalidTasks, invT, inbox, msgEvent,
                   origAddr, toExec, executing, fwd, enq>>

\* the execution timer has returned
tunnel_executed(t) ==
    /\ pc[t] = "await_exec"
    /\ exeT[cur[t]] \in {"true", "false"}
    /\ Deliver(t, cur[t], reply[t], timed_out(exeT, cur[t]))
    /\ UNCHANGED <<executor, lifecycle, store, aux>>
    /\ UNCHANGED <<req, listener, handshakeTasks, invalidTasks, invT, exeT, inbox, msgEvent,
                   origAddr, toExec, fromExec, executing, fwd, enq>>

\* "while not self.stop_poll" finds the flag set: the Dispatcher leaves its loop
tunnel_stop(t) ==
    /\ pc[t] = "top"
    /\ stop_poll
    /\ pc' = [pc EXCEPT ![t] = "stopped"]
    /\ UNCHANGED <<executor, lifecycle, store, aux>>
    /\ UNCHANGED <<req, listener, handshakeTasks, invalidTasks, invT, exeT, inbox, msgEvent,
                   cur, origAddr, reply, toExec, fromExec, executing, sent, fwd, enq>>

----------------------------------------------------------------------------
\* Executor of Thing t: run_single_target(instance)

\* async_recv_requests returns the next forwarded message
run_single_target_recv(t) ==
    /\ executor[t] = "running"
    /\ executing[t] = 0
    /\ toExec[t] # << >>
    /\ executing' = [executing EXCEPT ![t] = Head(toExec[t])]
    /\ toExec' = [toExec EXCEPT ![t] = Tail(@)]
    /\ UNCHANGED <<executor, lifecycle, store, aux>>
    /\ UNCHANGED <<req, listener, handshakeTasks, invalidTasks, invT, exeT, inbox, msgEvent,
                   pc, cur, origAddr, reply, fromExec, sent, fwd, enq>>

\* the message type of the response the Executor sends: execute_once returned
\* ("return"), raised an Exception ("raise"), or raised BreakInnerLoop or
\* BreakAllLoops ("break")
response_type(outcome) == IF outcome = "raise" THEN EXCEPTION ELSE REPLY

\* mutant: the Executor returns after every exception
state_after_any_exception(outcome) == IF outcome = "return" THEN "running" ELSE "returned"

\* of the branches of the try statement only the handler of BreakInnerLoop and
\* BreakAllLoops returns
state_after(outcome) == IF outcome = "break" THEN "returned" ELSE "running"

\* an outcome of execute_once: it returned a value, raised an Exception or
\* raised BreakInnerLoop or BreakAllLoops; d: the properties after it
Outcome(kind, return_value, d) == [kind |-> kind, return_value |-> return_value, store |-> d]

\* execute_once on a Thing whose properties have the values d: the set of its
\* possible outcomes.  An action is code of the user and may end in any way;
\* properties[objekt] raises KeyError for a name that is no property.
execute_once(d, objekt, operation, arguments) ==
    IF operation = readProperty
    THEN IF objekt \in DOMAIN d
         THEN {Outcome("return", d[objekt], d)}
         ELSE {Outcome("raise", "exception", d)}
    ELSE IF operation = writeProperty
    THEN IF objekt \in DOMAIN d
         THEN {Outcome("return", None, [d EXCEPT ![objekt] = arguments])}
         ELSE {Outcome("raise", "exception", d)}
    ELSE IF operation = deleteProperty
    THEN \* "del prop" unbinds the local name; the method then runs into the
         \* raise NotImplementedError at its end
         {Outcome("raise", "exception", d)}
    ELSE IF operation = invokeAction
    THEN {Outcome("return", "return_value", d), Outcome("raise", "exception", d),
          Outcome("break", None, d)}
    ELSE IF operation = readMultipleProperties \/ operation = readAllProperties
    THEN {Outcome("return", d, d)}
    ELSE IF operation = writeMultipleProperties \/ operation = writeAllProperties
    THEN {Outcome("return", None,
                  [k \in DOMAIN d |-> IF k \in DOMAIN arguments THEN arguments[k] ELSE d[k]])}
    ELSE {Outcome("raise", "exception", d)}

\* the outcomes of the operation the Executor of t holds
Outcomes(t) ==
    LET message == req[executing[t]] IN
    execute_once(store[t], message.objekt, message.operation, message.payload)

\* mutant: on BreakInnerLoop or BreakAllLoops the Executor leaves its loop
\* without sending the response
respond_unless_break(t, outcome) ==
    /\ fromExec' = IF outcome.kind = "break"
                   THEN fromExec
                   ELSE [fromExec EXCEPT ![t] =
                            Append(@, [type |-> response_type(outcome.kind),
                                       id |-> executing[t],
                                       addr |-> req[executing[t]].addr,
                                       data |-> outcome.return_value])]
    /\ executing' = [executing EXCEPT ![t] = 0]
    /\ executor' = [executor EXCEPT ![t] = state_after(outcome.kind)]
    /\ store' = [store EXCEPT ![t] = outcome.store]

\* the response is sent on the Thing's inproc server; the loop goes on or ends
respond(t, outcome) ==
    /\ fromExec' = [fromExec EXCEPT ![t] =
                        Append(@, [type |-> response_type(outcome.kind),
                                   id |-> executing[t],
                                   addr |-> req[executing[t]].addr,
                                   data |-> outcome.return_value])]
    /\ executing' = [executing EXCEPT ![t] = 0]
    /\ executor' = [executor EXCEPT ![t] = state_after(outcome.kind)]
    /\ store' = [store EXCEPT ![t] = outcome.store]

\* execute_once returns (REPLY) or raises (EXCEPTION); the response is sent
run_single_target_send(t) ==
    /\ executor[t] = "running"
    /\ executing[t] # 0
    /\ \E outcome \in Outcomes(t) :
          outcome.kind \in {"return", "raise"} /\ respond(t, outcome)
    /\ UNCHANGED <<lifecycle, aux>>
    /\ UNCHANGED <<req, listener, handshakeTasks, invalidTasks, invT, exeT, inbox, msgEvent,
                   pc, cur, origAddr, reply, toExec, sent, fwd, enq>>

\* the operation raises BreakInnerLoop or BreakAllLoops: the response is sent
\* and run_single_target returns
run_single_target_break(t) ==
    /\ executor[t] = "running"
    /\ executing[t] # 0
    /\ \E outcome \in Outcomes(t) : outcome.kind = "break" /\ respond(t, outcome)
    /\ UNCHANGED <<lifecycle, aux>>
    /\ UNCHANGED <<req, listener, handshakeTasks, invalidTasks, invT, exeT, inbox, msgEvent,
                   pc, cur, origAddr, reply, toExec, sent, fwd, enq>>

----------------------------------------------------------------------------
TimeoutTypes == {"invokation", "execution"}

Next ==
    \/ \E ep \in Endpoints : recv_requests(ep, Inputs)
    \/ \E id \in Ids : _handshake(id)
    \/ \E id \in Ids : _handle_invalid_message(id)
    \/ \E id \in Ids, typ \in TimeoutTypes : process_timeouts_expired(id, typ)
    \/ \E id \in Ids, typ \in TimeoutTypes : process_timeouts_released(id, typ)
    \/ \E t \in Things : tunnel_wait(t)
    \/ \E t \in Things : tunnel_wake(t)
    \/ \E t \in Things : tunnel_pop(t)
    \/ \E t \in Things : tunnel_invoked(t)
    \/ \E t \in Things : tunnel_reply(t)
    \/ \E t \in Things : tunnel_executed(t)
    \/ \E t \in Things : run_single_target_recv(t)
    \/ \E t \in Things : run_single_target_send(t)

Spec == Init /\ [][Next]_vars

----------------------------------------------------------------------------
\* Several Listeners, and frames of any number of parts

\* the servers poll() starts a Listener for
WireEndpoints == {"inproc", "tcp"}

\* a frame that is cut short after its first n parts
Cut(m, n) == [m EXCEPT !.parts = n]

\* requests without and with both timeouts, a handshake with a decodable
\* context, a request with an undecodable context, and requests cut short
\* after the message type, after the server execution context and before the
\* thing execution context
WireInputs ==
    {invoke(c, t, x) : c \in Clients, t \in Things,
        x \in {EmptyCtx, [TimedCtx EXCEPT !.exe = Seconds]}}
    \cup {[invoke(c, t, EmptyCtx) EXCEPT !.type = HANDSHAKE] :
              c \in Clients, t \in Things}
    \cup {invoke(c, t, BadCtx) : c \in Clients, t \in Things}
    \cup {Cut(invoke(c, t, EmptyCtx), n) :
              c \in Clients, t \in Things,
              n \in {CM_INDEX_MESSAGE_ID, CM_INDEX_THING_ID, CM_INDEX_THING_EXEC_CONTEXT}}

InitWire == Constructed(WireEndpoints, <<lamp>>, TRUE)

NextWire ==
    \/ \E ep \in WireEndpoints : recv_requests(ep, WireInputs)
    \/ \E id \in Ids : _handshake(id)
    \/ \E id \in Ids : _handle_invalid_message(id)
    \/ \E id \in Ids, typ \in TimeoutTypes : process_timeouts_expired(id, typ)
    \/ \E id \in Ids, typ \in TimeoutTypes : process_timeouts_released(id, typ)
    \/ \E t \in Things : tunnel_wait(t)
    \/ \E t \in Things : tunnel_wake(t)
    \/ \E t \in Things : tunnel_pop(t)
    \/ \E t \in Things : tunnel_invoked(t)
    \/ \E t \in Things : tunnel_reply(t)
    \/ \E t \in Things : tunnel_executed(t)
    \/ \E t \in Things : run_single_target_recv(t)
    \/ \E t \in Things : run_single_target_send(t)

SpecWire == InitWire /\ [][NextWire]_vars

----------------------------------------------------------------------------
\* The operations on a Thing

\* the values a client writes
Values == {"17", "42"}

\* a oneway request without timeouts, and one with an execution timeout
OnewayCtx == decode([oneway |-> TRUE])
OnewayTimedCtx == decode([oneway |-> TRUE, execution_timeout |-> Seconds])

\* writes of the property "level" that are oneway, reads of it without and
\* with an invokation timeout, its deletion, reads and writes of all
\* properties, an action, and an operation token execute_once does not know
OpsInputs ==
    {craft_from_arguments(c, t, "level", writeProperty, v, OnewayCtx) :
        c \in Clients, t \in Things, v \in Values}
    \cup {craft_from_arguments(c, t, "level", writeProperty, "17", OnewayTimedCtx) :
              c \in Clients, t \in Things}
    \cup {craft_from_arguments(c, t, "level", readProperty, EMPTY_BYTE, x) :
              c \in Clients, t \in Things, x \in {EmptyCtx, TimedCtx}}
    \cup {craft_from_arguments(c, t, "level", deleteProperty, EMPTY_BYTE, EmptyCtx) :
              c \in Clients, t \in Things}
    \cup {craft_from_arguments(c, t, None, op, EMPTY_BYTE, EmptyCtx) :
              c \in Clients, t \in Things,
              op \in {readMultipleProperties, readAllProperties}}
    \cup {craft_from_arguments(c, t, None, op, [level |-> "42"], EmptyCtx) :
              c \in Clients, t \in Things,
              op \in {writeMultipleProperties, writeAllProperties}}
    \cup {invoke(c, t, EmptyCtx) : c \in Clients, t \in Things}
    \cup {craft_from_arguments(c, t, "level", "dataResponse", EMPTY_BYTE, EmptyCtx) :
              c \in Clients, t \in Things}

NextOps ==
    \/ \E ep \in Endpoints : recv_requests(ep, OpsInputs)
    \/ \E id \in Ids, typ \in TimeoutTypes : process_timeouts_expired(id, typ)
    \/ \E id \in Ids, typ \in TimeoutTypes : process_timeouts_released(id, typ)
    \/ \E t \in Things : tunnel_wait(t)
    \/ \E t \in Things : tunnel_wake(t)
    \/ \E t \in Things : tunnel_pop(t)
    \/ \E t \in Things : tunnel_invoked(t)
    \/ \E t \in Things : tunnel_reply(t)
    \/ \E t \in Things : tunnel_executed(t)
    \/ \E t \in Things : run_single_target_recv(t)
    \/ \E t \in Things : run_single_target_send(t)

SpecOps == Init /\ [][NextOps]_vars

----------------------------------------------------------------------------
\* Failures of a Listener's socket

\* the number of failures of recv_multipart that are explored
MaxFail == 2

\* the requests the Listener of endpoint ep has received
Received(ep) == {id \in DOMAIN req : req[id].ep = ep}

\* the local name "message" of recv_requests: the last message it received
LastReceived(ep) == CHOOSE id \in Received(ep) : \A other \in Received(ep) : other <= id

\* recv_multipart raises: the except branch runs with the name "message" still
\* bound to the message of an earlier turn of the loop, or not bound at all,
\* and then the reference to it raises in the handler and ends recv_requests
recv_fails(ep) ==
    /\ listener[ep] = "running"
    /\ failures < MaxFail
    /\ failures' = failures + 1
    /\ IF Received(ep) = {}
       THEN /\ listener' = [listener EXCEPT ![ep] = "dead"]
            /\ UNCHANGED invalidTasks
       ELSE /\ invalidTasks' = invalidTasks \cup {LastReceived(ep)}
            /\ UNCHANGED listener
    /\ UNCHANGED <<executor, lifecycle, store, frame, result>>
    /\ UNCHANGED <<req, handshakeTasks, invT, exeT, inbox, msgEvent, pc, cur, origAddr,
                   reply, toExec, fromExec, executing, sent, fwd, enq>>

\* well-formed requests without timeouts
FailInputs == {invoke(c, t, EmptyCtx) : c \in Clients, t \in Things}

NextFail ==
    \/ \E ep \in Endpoints : recv_requests(ep, FailInputs)
    \/ \E ep \in Endpoints : recv_fails(ep)
    \/ \E id \in Ids : _handle_invalid_message(id)
    \/ \E t \in Things : tunnel_wait(t)
    \/ \E t \in Things : tunnel_wake(t)
    \/ \E t \in Things : tunnel_pop(t)
    \/ \E t \in Things : tunnel_reply(t)
    \/ \E t \in Things : run_single_target_recv(t)
    \/ \E t \in Things : run_single_target_send(t)

SpecFail == Init /\ [][NextFail]_vars

----------------------------------------------------------------------------
\* The message classes: RequestMessage and ResponseMessage on multipart frames.
\* A frame is the list of its parts; part i of the wire layout (counted from 0
\* as in the source) is element i + 1 of the sequence.

\* the dictionaries that travel in a frame and the JSON text of each
JsonTexts == {"{}", "{invokation_timeout: 5}", "{oneway: true}", "{fetch_execution_logs: true}"}

\* Serializers.json.loads of a text that is JSON
loads(text) ==
    CASE text = "{}" -> EMPTY_DICT
      [] text = "{invokation_timeout: 5}" -> [invokation_timeout |-> Seconds]
      [] text = "{oneway: true}" -> [oneway |-> TRUE]
      [] text = "{fetch_execution_logs: true}" -> [fetch_execution_logs |-> TRUE]

\* Serializers.json.dumps
dumps(d) ==
    CASE DOMAIN d = {} -> "{}"
      [] DOMAIN d = {"invokation_timeout"} -> "{invokation_timeout: 5}"
      [] DOMAIN d = {"oneway"} -> "{oneway: true}"
      [] DOMAIN d = {"fetch_execution_logs"} -> "{fetch_execution_logs: true}"

\* an item of a parsed message: a part as received, or a decoded dictionary
Raw(part) == [kind |-> "bytes", bytes |-> part, dict |-> EMPTY_DICT]
Decoded(text) == [kind |-> "dict", bytes |-> EMPTY_BYTE, dict |-> loads(text)]

\* what a call returned, or the exception it raised
Returned(op, value) == [op |-> op, raised |-> None, value |-> value]
Raised(op, exception) == [op |-> op, raised |-> exception, value |-> << >>]

\* msg[i] and msg[i:j] of a Python list
Slice(msg, i, j) == SubSeq(msg, i + 1, IF j < Len(msg) THEN j ELSE Len(msg))
Raws(msg) == [k \in DOMAIN msg |-> Raw(msg[k])]

\* RequestMessage.craft_from_arguments: the nine parts; message_id stands for
\* the uuid4 it draws
RequestMessage_craft_from_arguments(server_id, message_id, thing_id, objekt, operation, payload, server_execution_context, thing_execution_context) ==
    <<server_id, OPERATION, message_id, dumps(server_execution_context), thing_id,
      objekt, operation, dumps(payload), dumps(thing_execution_context)>>

\* RequestMessage.id: "return self._msg_bytes[4]"
RequestMessage_id(msg) ==
    IF 4 < Len(msg) THEN Returned("id", <<Raw(msg[4 + 1])>>) ELSE Raised("id", "IndexError")

\* RequestMessage.sender_id: "return self._msg_bytes[0]"
RequestMessage_sender_id(msg) ==
    IF 0 < Len(msg)
    THEN Returned("sender_id", <<Raw(msg[0 + 1])>>)
    ELSE Raised("sender_id", "IndexError")

\* RequestMessage.thing_id: "return self._msg_bytes[7]"
RequestMessage_thing_id(msg) ==
    IF 7 < Len(msg)
    THEN Returned("thing_id", <<Raw(msg[7 + 1])>>)
    ELSE Raised("thing_id", "IndexError")

\* RequestMessage.header: parse_header takes _msg_bytes[:6] and replaces its
\* item 5 by the decoded item
parse_header(msg) ==
    LET _header == Slice(msg, 0, 6) IN
    IF ~ 5 < Len(_header)
    THEN Raised("header", "IndexError")
    ELSE IF _header[5 + 1] \notin JsonTexts
    THEN Raised("header", "JSONDecodeError")
    ELSE Returned("header", [Raws(_header) EXCEPT ![5 + 1] = Decoded(_header[5 + 1])])

\* RequestMessage.body: parse_body takes _msg_bytes[7:] and replaces its item 4
\* by the decoded item
parse_body(msg) ==
    LET _body == Slice(msg, 7, Len(msg)) IN
    IF ~ 4 < Len(_body)
    THEN Raised("body", "IndexError")
    ELSE IF _body[4 + 1] \notin JsonTexts
    THEN Raised("body", "JSONDecodeError")
    ELSE Returned("body", [Raws(_body) EXCEPT ![4 + 1] = Decoded(_body[4 + 1])])

\* ResponseMessage.craft_from_request.  The class defines no attribute
\* server_type: the method raises AttributeError unless the object was given
\* one (server_type # None)
craft_from_request(server_type, request_message, data, pre_encoded_data) ==
    LET sender_id == RequestMessage_sender_id(request_message)
        message_id == RequestMessage_id(request_message)
    IN
    IF sender_id.raised # None
    THEN Raised("craft_from_request", sender_id.raised)
    ELSE IF server_type = None
    THEN Raised("craft_from_request", "AttributeError")
    ELSE IF message_id.raised # None
    THEN Raised("craft_from_request", message_id.raised)
    ELSE Returned("craft_from_request",
                  Raws(<<sender_id.value[1].bytes, EMPTY_BYTE, server_type, REPLY,
                         message_id.value[1].bytes, dumps(data), pre_encoded_data>>))

\* the request frames under inspection: crafted by craft_from_arguments
MessageIds == {"m1", "m2"}
ObjectNames == {"level", "{}"}
RequestFrames ==
    {RequestMessage_craft_from_arguments(c, m, t, o, op, EMPTY_DICT, sx, tx) :
        c \in Clients, m \in MessageIds, t \in Things, o \in ObjectNames,
        op \in {readProperty, invokeAction},
        sx \in {EMPTY_DICT, [invokation_timeout |-> Seconds], [oneway |-> TRUE]},
        tx \in {EMPTY_DICT, [fetch_execution_logs |-> TRUE]}}

\* the value of server_type on the ResponseMessage object, None when not set
ServerTypes == {None, "RPC"}

InitMessage ==
    /\ Broker(Endpoints, <<lamp>>, TRUE)
    /\ frame \in RequestFrames
    /\ result = NoResult

\* what a call on the message object leaves alone
others == <<req, listener, handshakeTasks, invalidTasks, invT, exeT, inbox, msgEvent, pc,
            cur, origAddr, reply, toExec, fromExec, executing, sent, fwd, enq, executor,
            lifecycle, store, failures, frame>>

\* the calls on the message object made of the frame
get_id ==
    /\ result' = RequestMessage_id(frame)
    /\ UNCHANGED others

get_sender_id ==
    /\ result' = RequestMessage_sender_id(frame)
    /\ UNCHANGED others

get_thing_id ==
    /\ result' = RequestMessage_thing_id(frame)
    /\ UNCHANGED others

get_header ==
    /\ result' = parse_header(frame)
    /\ UNCHANGED others

get_body ==
    /\ result' = parse_body(frame)
    /\ UNCHANGED others

reply_to_request ==
    /\ \E server_type \in ServerTypes :
          result' = craft_from_request(server_type, frame, EMPTY_DICT, EMPTY_BYTE)
    /\ UNCHANGED others

NextMessage ==
    \/ get_id
    \/ get_sender_id
    \/ get_thing_id
    \/ get_header
    \/ get_body
    \/ reply_to_request

SpecMessage == InitMessage /\ [][NextMessage]_vars

----------------------------------------------------------------------------
\* An Executor that never answers: the operation it runs does not return

\* requests that expect an answer, with and without each timeout
StuckInputs ==
    {invoke(c, t, x) : c \in Clients, t \in Things, x \in {y \in ExecCtxs : ~y.oneway}}

NextStuck ==
    \/ \E ep \in Endpoints : recv_requests(ep, StuckInputs)
    \/ \E id \in Ids, typ \in TimeoutTypes : process_timeouts_expired(id, typ)
    \/ \E id \in Ids, typ \in TimeoutTypes : process_timeouts_released(id, typ)
    \/ \E t \in Things : tunnel_wait(t)
    \/ \E t \in Things : tunnel_wake(t)
    \/ \E t \in Things : tunnel_pop(t)
    \/ \E t \in Things : tunnel_invoked(t)
    \/ \E t \in Things : run_single_target_recv(t)

SpecStuck == Init /\ [][NextStuck]_vars

\* a timer task is a task of the event loop: wait_for returns at the deadline
FairStuck ==
    SpecStuck /\ \A id \in Ids, typ \in TimeoutTypes : WF_vars(process_timeouts_expired(id, typ))

----------------------------------------------------------------------------
\* Listener and Dispatcher on the inbox of a Thing whose Executor answers

\* requests that expect an answer, without and with an invokation timeout
InboxInputs == {invoke(c, t, x) : c \in Clients, t \in Things, x \in {EmptyCtx, TimedCtx}}

\* the tasks of the event loop other than the Listener
TasksInbox ==
    \/ \E id \in Ids : process_timeouts_expired(id, "invokation")
    \/ \E id \in Ids : process_timeouts_released(id, "invokation")
    \/ \E t \in Things : tunnel_wait(t)
    \/ \E t \in Things : tunnel_wake(t)
    \/ \E t \in Things : tunnel_pop(t)
    \/ \E t \in Things : tunnel_invoked(t)
    \/ \E t \in Things : tunnel_reply(t)
    \/ \E t \in Things : run_single_target_recv(t)
    \/ \E t \in Things : run_single_target_send(t)

NextInbox ==
    \/ \E ep \in Endpoints : recv_requests(ep, InboxInputs)
    \/ TasksInbox

SpecInbox == Init /\ [][NextInbox]_vars

\* the event loop runs a task that is ready
FairInbox == SpecInbox /\ WF_vars(TasksInbox)

----------------------------------------------------------------------------
\* Two clients on one endpoint

\* the addresses of the clients
Senders == {"c1", "c2"}

\* a request with an execution timeout only
ExeCtx == decode([execution_timeout |-> Seconds])

\* a request with both timeouts
BothCtx == decode([invokation_timeout |-> Seconds, execution_timeout |-> Seconds])

\* requests of either client that expect an answer: without timeouts, with an
\* invokation timeout, with an execution timeout, with both
SenderInputs ==
    {invoke(c, t, x) : c \in Senders, t \in Things,
                       x \in {EmptyCtx, TimedCtx, ExeCtx, BothCtx}}

NextSenders ==
    \/ \E ep \in Endpoints : recv_requests(ep, SenderInputs)
    \/ \E id \in Ids, typ \in TimeoutTypes : process_timeouts_expired(id, typ)
    \/ \E id \in Ids, typ \in TimeoutTypes : process_timeouts_released(id, typ)
    \/ \E t \in Things : tunnel_wait(t)
    \/ \E t \in Things : tunnel_wake(t)
    \/ \E t \in Things : tunnel_pop(t)
    \/ \E t \in Things : tunnel_invoked(t)
    \/ \E t \in Things : tunnel_reply(t)
    \/ \E t \in Things : tunnel_executed(t)
    \/ \E t \in Things : run_single_target_recv(t)
    \/ \E t \in Things : run_single_target_send(t)

SpecSenders == Init /\ [][NextSenders]_vars

----------------------------------------------------------------------------
\* Lifecycle: run, poll, stop_polling, exit, instantiate

\* run(): the Executors are started, then run_external_message_listener
\* gathers poll() and the Dispatchers
run ==
    /\ \A ep \in DOMAIN listener : listener[ep] = "created"
    /\ executor' = [t \in Things |-> "running"]
    /\ stop_poll' = FALSE
    /\ listener' = [ep \in DOMAIN listener |-> "running"]
    /\ pc' = [t \in Things |-> "top"]
    /\ UNCHANGED <<things, given, attached>>
    /\ UNCHANGED <<store, aux>>
    /\ UNCHANGED <<req, handshakeTasks, invalidTasks, invT, exeT, inbox, msgEvent,
                   cur, origAddr, reply, toExec, fromExec, executing, sent, fwd, enq>>

\* poll(): the stop flag is cleared and a Listener is started on every server
\* (a server that exit() closed receives nothing more)
poll ==
    /\ stop_poll' = FALSE
    /\ listener' = [ep \in DOMAIN listener |->
                        IF listener[ep] = "closed" THEN "closed" ELSE "running"]
    /\ UNCHANGED <<executor, things, given, attached>>
    /\ UNCHANGED <<store, aux>>
    /\ UNCHANGED <<req, handshakeTasks, invalidTasks, invT, exeT, inbox, msgEvent, pc,
                   cur, origAddr, reply, toExec, fromExec, executing, sent, fwd, enq>>

\* stop_polling(): the flag is set; the next statement reads the name
\* "instance", which is bound nowhere, and raises NameError, so nothing of
\* the rest of the method runs
stop_polling ==
    /\ stop_poll' = TRUE
    /\ UNCHANGED <<executor, things, given, attached>>
    /\ UNCHANGED <<store, aux>>
    /\ UNCHANGED <<req, listener, handshakeTasks, invalidTasks, invT, exeT, inbox,
                   msgEvent, pc, cur, origAddr, reply, toExec, fromExec, executing,
                   sent, fwd, enq>>

\* exit(): the flag is set and the servers are closed
exit ==
    /\ stop_poll' = TRUE
    /\ listener' = [ep \in DOMAIN listener |-> "closed"]
    /\ UNCHANGED <<executor, things, given, attached>>
    /\ UNCHANGED <<store, aux>>
    /\ UNCHANGED <<req, handshakeTasks, invalidTasks, invT, exeT, inbox, msgEvent, pc,
                   cur, origAddr, reply, toExec, fromExec, executing, sent, fwd, enq>>

\* instantiate(): self.things is a dict and has no append; the call raises
\* AttributeError before any loop is started for the new Thing
instantiate(thing) ==
    /\ thing \notin attached
    /\ attached' = attached \cup {thing}
    /\ UNCHANGED <<executor, stop_poll, things, given>>
    /\ UNCHANGED <<store, aux>>
    /\ UNCHANGED <<req, listener, handshakeTasks, invalidTasks, invT, exeT, inbox,
                   msgEvent, pc, cur, origAddr, reply, toExec, fromExec, executing,
                   sent, fwd, enq>>

\* the lists of Things a broker is constructed with
GivenLists == {<<lamp>>, <<lamp, twin>>}

\* the Things instantiate is called for
Attachable == {probe, twin}

\* requests without and with both timeouts, a request to the id of the Thing
\* that instantiate is called for, the EXIT frame craft_with_message_type
\* builds and an EXIT frame with a decodable context
LifeInputs ==
    {invoke(c, t, x) : c \in Clients, t \in Things,
        x \in {EmptyCtx, [TimedCtx EXCEPT !.exe = Seconds]}}
    \cup {invoke(c, probe.id, EmptyCtx) : c \in Clients}
    \cup {craft_with_message_type(c, EXIT) : c \in Clients}
    \cup {[invoke(c, t, EmptyCtx) EXCEPT !.type = EXIT] :
              c \in Clients, t \in Things}

InitLife == \E ts \in GivenLists : Constructed(Endpoints, ts, FALSE)

\* the steps of the tasks of the broker
TasksLife ==
    \/ \E id \in Ids : _handle_invalid_message(id)
    \/ \E id \in Ids, typ \in TimeoutTypes : process_timeouts_expired(id, typ)
    \/ \E id \in Ids, typ \in TimeoutTypes : process_timeouts_released(id, typ)
    \/ \E t \in Things : tunnel_wait(t)
    \/ \E t \in Things : tunnel_wake(t)
    \/ \E t \in Things : tunnel_pop(t)
    \/ \E t \in Things : tunnel_invoked(t)
    \/ \E t \in Things : tunnel_reply(t)
    \/ \E t \in Things : tunnel_executed(t)
    \/ \E t \in Things : tunnel_stop(t)
    \/ \E t \in Things : run_single_target_recv(t)
    \/ \E t \in Things : run_single_target_send(t)
    \/ \E t \in Things : run_single_target_break(t)

\* the messages of the clients and the calls of the lifecycle operations
CallsLife ==
    \/ \E ep \in Endpoints : recv_requests(ep, LifeInputs)
    \/ run
    \/ poll
    \/ stop_polling
    \/ exit
    \/ \E thing \in Attachable : instantiate(thing)

NextLife == TasksLife \/ CallsLife

SpecLife == InitLife /\ [][NextLife]_vars

\* the event loops run every task that can take a step; no client has to
\* send and no lifecycle operation has to be called
FairLife == SpecLife /\ WF_vars(TasksLife)

----------------------------------------------------------------------------
\* Vocabulary of the properties

Range(q) == {q[i] : i \in DOMAIN q}

\* the position of x in the sequence q (0 when absent)
Pos(q, x) == IF x \in Range(q) THEN CHOOSE i \in DOMAIN q : q[i] = x ELSE 0

\* the requests a Listener placed on an inbox
Enqueued == UNION {Range(enq[t]) : t \in Things}

\* the requests the Dispatcher forwarded to an Executor
Forwarded == Range(fwd)

\* the Dispatcher has popped the request and ended its turn of the loop for it
Finished(id) ==
    /\ id \in Enqueued
    /\ \A t \in Things : id \notin Range(inbox[t]) /\ cur[t] # id

\* the Dispatcher has popped the request and has the verdict of its invokation timer
Decided(id) ==
    /\ id \in Enqueued
    /\ \A t \in Things : id \notin Range(inbox[t]) /\ ~(cur[t] = id /\ pc[t] = "await_inv")

\* the positions in sent of the frames that carry the message id
FramesOf(id) == {i \in DOMAIN sent : sent[i].id = id}

AnswerTypes == {REPLY, TIMEOUT, EXCEPTION, INVALID_MESSAGE}

AnswersOf(id) == {i \in FramesOf(id) : sent[i].type \in AnswerTypes}

RepliesOf(id) == {i \in FramesOf(id) : sent[i].type \in {REPLY, EXCEPTION}}

TimeoutSent(id, timeout_typ) ==
    \E i \in FramesOf(id) : sent[i].type = TIMEOUT /\ sent[i].data = timeout_typ

\* requests the Executor of t holds: sent to it and not yet answered by it
Outstanding(t) == Len(toExec[t]) + (IF executing[t] # 0 THEN 1 ELSE 0)

----------------------------------------------------------------------------
C2_OnewayNoFrame ==
    \A id \in Enqueued : req[id].ctx.oneway => FramesOf(id) = {}

\* C3 (as a final result): once the Dispatcher is done with an enqueued request
\* with oneway=false, exactly one frame with its message id and with the
\* sender's address as receiver address has been sent.
C3_AnsweredOnceToSender ==
    \A id \in Enqueued :
        (~req[id].ctx.oneway /\ Finished(id)) =>
            Cardinality({i \in FramesOf(id) : sent[i].addr = req[id].client}) = 1

\* C4 (as stated): the frames sent in answer to the requests of one Thing, the
\* TIMEOUT frames included, are sent in the order the requests were enqueued.
C4_AllFramesInOrder ==
    \A t \in Things : \A i, j \in DOMAIN sent :
        (i < j /\ sent[i].id \in Range(enq[t]) /\ sent[j].id \in Range(enq[t]))
            => Pos(enq[t], sent[i].id) <= Pos(enq[t], sent[j].id)

IsInvokationTimeout(f) == f.type = TIMEOUT /\ f.data = "invokation"

\* C4 (amended): the frames other than TIMEOUT("invokation") sent in answer to
\* the requests of one Thing (REPLY, EXCEPTION, TIMEOUT("execution")) are sent
\* in the order the requests were enqueued.
C4_DispatchedFramesInOrder ==
    \A t \in Things : \A i, j \in DOMAIN sent :
        (/\ i < j
         /\ sent[i].id \in Range(enq[t]) /\ sent[j].id \in Range(enq[t])
         /\ ~IsInvokationTimeout(sent[i]) /\ ~IsInvokationTimeout(sent[j]))
            => Pos(enq[t], sent[i].id) <= Pos(enq[t], sent[j].id)

\* two requests of one Thing answered one after the other, one of them by
\* TIMEOUT("execution")
C4_Witness ==
    \E t \in Things : \E i, j \in DOMAIN sent :
        /\ i < j
        /\ sent[i].id \in Range(enq[t]) /\ sent[j].id \in Range(enq[t])
        /\ sent[i].id # sent[j].id
        /\ sent[i].type = TIMEOUT /\ sent[i].data = "execution"
        /\ sent[j].type \in {REPLY, EXCEPTION}

\* C5: for an enqueued request with an invokation timeout, TIMEOUT("invokation")
\* is sent exactly when its timer expired before the gate was set; a request
\* whose timer expired is never forwarded, and once the Dispatcher has the
\* verdict the request is forwarded exactly when no TIMEOUT("invokation") was sent.
C5_ForwardedIffNoInvokationTimeout ==
    \A id \in Enqueued :
        req[id].ctx.inv # None =>
            /\ (invT[id] = "true") = TimeoutSent(id, "invokation")
            /\ TimeoutSent(id, "invokation") =>
                  /\ id \notin Forwarded
                  /\ \A t \in Things : id \notin Range(toExec[t]) /\ executing[t] # id
            /\ Decided(id) => ((id \in Forwarded) = ~TimeoutSent(id, "invokation"))

\* one request timed out at invokation and was dropped, another was released
\* by the gate and forwarded
C5_Witness ==
    \E a, b \in Enqueued :
        /\ invT[a] = "true" /\ Finished(a) /\ a \notin Forwarded
        /\ invT[b] = "false" /\ b \in Forwarded

C8_OneOutstanding ==
    \A t \in Things : Outstanding(t) <= 1

\* the execution of a request timed out, the Executor still runs it, and the
\* next request waits in the inbox
C8_Witness ==
    \E t \in Things :
        /\ executing[t] # 0
        /\ exeT[executing[t]] = "true"
        /\ inbox[t] # << >>

\* C9 (as a safety property): every HANDSHAKE message a Listener has received
\* has a HANDSHAKE reply pending or sent, on its socket, with its address and id.
C9_HandshakeAnswered ==
    \A id \in DOMAIN req :
        req[id].type = HANDSHAKE =>
            \/ id \in handshakeTasks
            \/ \E i \in FramesOf(id) :
                  /\ sent[i].type = HANDSHAKE
                  /\ sent[i].addr = req[id].client
                  /\ sent[i].ep = req[id].ep

C11_AnsweredOnOriginEndpoint ==
    \A i \in DOMAIN sent :
        /\ sent[i].id \in DOMAIN req
        /\ sent[i].type \in AnswerTypes \cup {HANDSHAKE}
        /\ sent[i].ep = req[sent[i].id].ep

\* two requests of one Thing received on different endpoints, the first
\* answered by a reply and the second by a TIMEOUT, and a request with an
\* undecodable context received on one endpoint and answered
C11_Witness ==
    /\ \E t \in Things : \E i, j \in DOMAIN sent :
          /\ sent[i].id \in Range(enq[t]) /\ sent[j].id \in Range(enq[t])
          /\ sent[i].type \in {REPLY, EXCEPTION} /\ sent[j].type = TIMEOUT
          /\ sent[i].ep = "tcp" /\ sent[j].ep = "inproc"
          /\ Pos(enq[t], sent[i].id) < Pos(enq[t], sent[j].id)
    /\ \E k \in DOMAIN sent : sent[k].type = INVALID_MESSAGE

\* an INVALID_MESSAGE frame for the message is pending or was sent on the
\* endpoint the message came in on, and no frame of another type was sent for it
AnsweredInvalid(id) ==
    /\ \/ id \in invalidTasks
       \/ \E i \in FramesOf(id) : sent[i].type = INVALID_MESSAGE
    /\ \A i \in FramesOf(id) :
          sent[i].type = INVALID_MESSAGE /\ sent[i].ep = req[id].ep

\* C12: an OPERATION request whose thing id is not in the registry is answered
\* with INVALID_MESSAGE on the endpoint it came in on, is not put on any inbox,
\* gets no other frame, and the Listener keeps running.
C12_UnknownThingRejected ==
    \A id \in DOMAIN req :
        (/\ req[id].type = OPERATION
         /\ req[id].ctx.ok
         /\ req[id].parts = CM_MESSAGE_LENGTH
         /\ req[id].thing \notin DOMAIN things) =>
            /\ AnsweredInvalid(id)
            /\ id \notin Enqueued
            /\ listener[req[id].ep] # "dead"

\* C13: a frame with fewer than 9 parts, or whose server execution context
\* cannot be decoded, is answered with INVALID_MESSAGE on the endpoint it came
\* in on, is not put on any inbox, and does not end the Listener's loop.
C13_MalformedRejected ==
    \A id \in DOMAIN req :
        (req[id].parts < CM_MESSAGE_LENGTH \/ ~req[id].ctx.ok) =>
            /\ AnsweredInvalid(id)
            /\ id \notin Enqueued
            /\ listener[req[id].ep] # "dead"

\* C14: a well-formed request whose message type is none of HANDSHAKE, EXIT and
\* OPERATION is answered with INVALID_MESSAGE and is never put on an inbox or
\* forwarded to an Executor.
C14_UnknownTypeRejected ==
    \A id \in DOMAIN req :
        (/\ req[id].type \notin {HANDSHAKE, EXIT, OPERATION}
         /\ req[id].ctx.ok
         /\ req[id].parts = CM_MESSAGE_LENGTH
         /\ req[id].thing \in DOMAIN things) =>
            /\ AnsweredInvalid(id)
            /\ id \notin Enqueued
            /\ id \notin Forwarded

\* C15: when the operation raises (or its token is unknown, which raises
\* NotImplementedError), the Executor sends one EXCEPTION frame for that request
\* and keeps running, free to receive the next request forwarded to the Thing.
C15_ExceptionKeepsExecutor ==
    [][\A t \in Things :
        (/\ Len(fromExec'[t]) > Len(fromExec[t])
         /\ fromExec'[t][Len(fromExec'[t])].type = EXCEPTION) =>
            /\ Len(fromExec'[t]) = Len(fromExec[t]) + 1
            /\ SubSeq(fromExec'[t], 1, Len(fromExec[t])) = fromExec[t]
            /\ fromExec'[t][Len(fromExec'[t])].id = executing[t]
            /\ executor'[t] = "running"
            /\ executing'[t] = 0]_vars

\* a request was answered with EXCEPTION, and a request forwarded to the same
\* Thing after it was executed and answered too
C15_Witness ==
    \E t \in Things : \E i, j \in DOMAIN sent :
        /\ i < j
        /\ sent[i].type = EXCEPTION /\ sent[j].type \in {REPLY, EXCEPTION}
        /\ sent[i].id \in Range(enq[t]) /\ sent[j].id \in Range(enq[t])
        /\ Pos(fwd, sent[i].id) < Pos(fwd, sent[j].id)
        /\ executor[t] = "running"

\* run() has started the loops of the broker
Started == \A t \in Things : pc[t] # "created"

\* no Listener is in its loop and every Dispatcher has left its loop
AllLoopsEnded ==
    /\ \A ep \in DOMAIN listener : listener[ep] # "running"
    /\ \A t \in Things : pc[t] = "stopped"

\* C16: after stop_polling() on a running broker every Listener loop and every
\* Dispatcher loop eventually terminates (unless poll() clears the flag again),
\* a Dispatcher that waits on the event of an empty inbox and a Listener that
\* waits in recv_multipart included.
C16_StopTerminates ==
    (stop_poll /\ Started) ~> (~stop_poll \/ AllLoopsEnded)

\* C17: the step in which a Listener receives EXIT and leaves its loop sets the
\* inbox event of every Dispatcher that waits on it, so that no Dispatcher
\* stays blocked on an inbox no Listener can fill any more.
C17_ExitWakesDispatchers ==
    [][\A ep \in DOMAIN listener :
        (listener[ep] = "running" /\ listener'[ep] = "exited") =>
            \A t \in Things : pc[t] = "waiting" => msgEvent'[t]]_vars

\* C18: the stop flag, once set by stop_polling() or exit(), is never cleared
\* again by any operation (poll, instantiate, run), and instantiate is rejected
\* whenever the broker is not running.
C18_NoWayBack ==
    [][/\ stop_poll => stop_poll'
       /\ (attached' # attached /\ (stop_poll \/ ~Started)) => things' = things]_vars

\* C19: a broker exists only with one registry record for every Thing it was
\* given: the number of records is the number of Things given, and no record
\* was replaced by that of another Thing with the same id.
C19_OneRecordPerThing ==
    /\ Cardinality(DOMAIN things) = Len(given)
    /\ \A i \in DOMAIN given :
          given[i].id \in DOMAIN things /\ things[given[i].id] = given[i]

\* C20: the step in which instantiate is called on a running broker for a
\* Thing with a new id puts the Thing in the registry, so that the Listeners
\* route requests with its id to its inbox, and gives it a Dispatcher and an
\* Executor.
C20_AttachedIsServed ==
    [][\A thing \in Attachable :
        (/\ thing \in attached' \ attached
         /\ Started /\ ~stop_poll
         /\ thing.id \notin DOMAIN things) =>
            /\ thing.id \in DOMAIN things' /\ things'[thing.id] = thing
            /\ thing.id \in DOMAIN pc' /\ thing.id \in DOMAIN executor']_vars

\* C21: a request whose server execution context gives none of the three keys
\* is handled with the defaults (5, 5, false): it is supervised by an
\* invokation timer and, once forwarded, by an execution timer.
C21_DefaultsApplied ==
    \A id \in Enqueued :
        req[id].ctx = decode(EMPTY_DICT) =>
            LET defaults == decode(default_server_execution_context) IN
            /\ defaults.inv # None => invT[id] # "none"
            /\ (defaults.exe # None /\ id \in Forwarded) => exeT[id] # "none"

\* C22: a TIMEOUT frame is sent only by process_timeouts and only when its
\* timer expires: every step that sends one takes a pending timer of that
\* phase to the verdict True; a request without invokation (execution) timeout
\* never gets TIMEOUT("invokation") (TIMEOUT("execution")), and a timer whose
\* gate was set in time returns False and has sent nothing.
C22_OnlySupervisorTimesOut ==
    /\ [](\A id \in DOMAIN req :
            /\ req[id].ctx.inv = None => ~TimeoutSent(id, "invokation")
            /\ req[id].ctx.exe = None => ~TimeoutSent(id, "execution")
            /\ invT[id] = "false" => ~TimeoutSent(id, "invokation")
            /\ exeT[id] = "false" => ~TimeoutSent(id, "execution"))
    /\ [][\A i \in DOMAIN sent' :
            (i \notin DOMAIN sent /\ sent'[i].type = TIMEOUT) =>
                \/ /\ sent'[i].data = "invokation"
                   /\ invT[sent'[i].id] = "pending" /\ invT'[sent'[i].id] = "true"
                \/ /\ sent'[i].data = "execution"
                   /\ exeT[sent'[i].id] = "pending" /\ exeT'[sent'[i].id] = "true"]_vars

\* one request was released by both gates and answered by its reply, one timed
\* out at execution, and one without any timeout was answered
C22_Witness ==
    \E a, b, c \in Enqueued :
        /\ invT[a] = "false" /\ exeT[a] = "false" /\ RepliesOf(a) # {}
        /\ exeT[b] = "true" /\ TimeoutSent(b, "execution")
        /\ req[c].ctx.inv = None /\ req[c].ctx.exe = None /\ RepliesOf(c) # {}

\* the properties of Thing t after the Executor has executed, in the order of
\* enqueueing, those of the first n requests of t that were forwarded to it
RECURSIVE StoreAfter(_, _)
StoreAfter(t, n) ==
    IF n = 0
    THEN InitialValues
    ELSE LET id == enq[t][n]
             d == StoreAfter(t, n - 1)
         IN IF id \in Forwarded
            THEN (CHOOSE o \in execute_once(d, req[id].objekt, req[id].operation,
                                            req[id].payload) : TRUE).store
            ELSE d

\* requests are forwarded to the Executor in the order they were enqueued, and
\* the reply to a readProperty carries the value the property has after every
\* request enqueued and forwarded before it
C23_ReadsSeeLastWrite ==
    /\ \A t \in Things : \A a, b \in Range(enq[t]) \cap Forwarded :
          Pos(fwd, a) < Pos(fwd, b) => Pos(enq[t], a) < Pos(enq[t], b)
    /\ \A t \in Things : \A i \in DOMAIN sent :
          (/\ sent[i].type = REPLY
           /\ sent[i].id \in Range(enq[t])
           /\ req[sent[i].id].operation = readProperty) =>
              sent[i].data =
                  StoreAfter(t, Pos(enq[t], sent[i].id) - 1)[req[sent[i].id].objekt]

C23_ReadAfterOnewayWrite ==
    \E t \in Things : \E w, r \in Range(enq[t]) :
        /\ Pos(enq[t], w) < Pos(enq[t], r)
        /\ req[w].operation = writeProperty /\ req[w].ctx.oneway /\ req[w].payload = "17"
        /\ FramesOf(w) = {}
        /\ req[r].operation = readProperty
        /\ \E i \in FramesOf(r) : sent[i].type = REPLY /\ sent[i].data = "17"

\* C24: when an operation raises BreakInnerLoop or BreakAllLoops the Executor
\* sends the REPLY for that request in the step in which it leaves its loop;
\* after that it executes nothing on the Thing and sends nothing; and the
\* Dispatcher never waits for the reply of a request the Executor is done with
\* unless that reply is there to be received.
C24_FinalReplyThenLeave ==
    /\ [][\A t \in Things :
            (executor[t] = "running" /\ executor'[t] = "returned") =>
                /\ executing[t] # 0
                /\ Len(fromExec'[t]) = Len(fromExec[t]) + 1
                /\ fromExec'[t][Len(fromExec'[t])].id = executing[t]
                /\ fromExec'[t][Len(fromExec'[t])].type = REPLY]_vars
    /\ [][\A t \in Things :
            executor[t] = "returned" =>
                /\ executor'[t] = "returned"
                /\ executing'[t] = 0
                /\ store'[t] = store[t]
                /\ Len(fromExec'[t]) <= Len(fromExec[t])]_vars
    /\ [](\A t \in Things :
            (/\ pc[t] = "await_reply"
             /\ cur[t] \notin Range(toExec[t])
             /\ executing[t] # cur[t]) => fromExec[t] # << >>)

\* the Executor has left its loop, the request whose action raised the signal
\* was answered with REPLY, and a request forwarded after it waits unexecuted
C24_Witness ==
    \E t \in Things :
        /\ executor[t] = "returned"
        /\ toExec[t] # << >>
        /\ \E i \in DOMAIN sent :
              /\ sent[i].type = REPLY /\ sent[i].data = None
              /\ sent[i].id \in Range(enq[t])
              /\ req[sent[i].id].operation = invokeAction

\* C25: a deleteProperty request on a property that has a delete hook is
\* answered with REPLY, never with EXCEPTION; only an operation token outside
\* the eight known ones ends in the EXCEPTION of the unimplemented operation.
C25_DeleteHookReplies ==
    \A id \in Enqueued :
        (req[id].operation = deleteProperty /\ req[id].objekt \in DeleteHooks) =>
            \A i \in FramesOf(id) : sent[i].type # EXCEPTION

\* C26: a failure of recv_multipart on a Listener's endpoint does not end the
\* Listener's loop, and no request that was received and enqueued is answered
\* with INVALID_MESSAGE because of it.
C26_FailureIsSilent ==
    /\ \A ep \in DOMAIN listener : listener[ep] # "dead"
    /\ \A id \in Enqueued : ~AnsweredInvalid(id)

\* the second way the claim fails: a request that was enqueued is answered
\* with INVALID_MESSAGE
C26_StaleMessageAnswered == \E id \in Enqueued : AnsweredInvalid(id)

\* part i (counted from 0) of the frame
Part(i) == frame[i + 1]

\* C27: RequestMessage reads the fields of a 9-part frame at the positions of
\* the wire layout: id is part 2, sender_id part 0, thing_id part 4, the header
\* is parts 0 to 3 with part 3 decoded, the body is parts 4 to 8 with part 8
\* decoded; so a frame of craft_from_arguments is parsed back to its arguments.
C27_FieldsAtWirePositions ==
    /\ result.op = "id" =>
          result = Returned("id", <<Raw(Part(CM_INDEX_MESSAGE_ID))>>)
    /\ result.op = "sender_id" =>
          result = Returned("sender_id", <<Raw(Part(CM_INDEX_ADDRESS))>>)
    /\ result.op = "thing_id" =>
          result = Returned("thing_id", <<Raw(Part(CM_INDEX_THING_ID))>>)
    /\ result.op = "header" =>
          result = Returned("header", <<Raw(Part(0)), Raw(Part(1)), Raw(Part(2)),
                                       Decoded(Part(CM_INDEX_SERVER_EXEC_CONTEXT))>>)
    /\ result.op = "body" =>
          result = Returned("body", <<Raw(Part(4)), Raw(Part(5)), Raw(Part(6)), Raw(Part(7)),
                                     Decoded(Part(CM_INDEX_THING_EXEC_CONTEXT))>>)

\* C28: the reply frame craft_from_request builds from a request has exactly
\* five parts, part 0 the request's part 0 (the sender), part 1 REPLY and part 2
\* the request's part 2 (the message id).
C28_ReplyHasFiveParts ==
    result.op = "craft_from_request" =>
        /\ result.raised = None
        /\ Len(result.value) = 5
        /\ result.value[1] = Raw(Part(CM_INDEX_ADDRESS))
        /\ result.value[2] = Raw(REPLY)
        /\ result.value[3] = Raw(Part(CM_INDEX_MESSAGE_ID))

\* C29: while the Executor of a Thing does not answer, the Dispatcher of that
\* Thing stays in the await of the reply and forwards no other request, and
\* every request enqueued behind the forwarded one with an invokation timeout
\* is answered with TIMEOUT("invokation").
C29_BlockedDispatcher ==
    /\ [][\A t \in Things :
            pc[t] = "await_reply" => (pc'[t] = "await_reply" /\ fwd' = fwd)]_vars
    /\ \A id \in Ids :
          (/\ id \in Enqueued
           /\ req[id].ctx.inv # None
           /\ \E t \in Things :
                 /\ pc[t] = "await_reply"
                 /\ id \in Range(enq[t])
                 /\ Pos(enq[t], cur[t]) < Pos(enq[t], id))
              ~> TimeoutSent(id, "invokation")

\* the Dispatcher awaits the reply of a request the Executor holds, and a
\* request enqueued behind it was answered with TIMEOUT("invokation")
C29_Witness ==
    \E t \in Things : \E id \in Range(enq[t]) :
        /\ pc[t] = "await_reply"
        /\ executing[t] = cur[t]
        /\ Pos(enq[t], cur[t]) < Pos(enq[t], id)
        /\ id \notin Forwarded
        /\ TimeoutSent(id, "invokation")

C31_ReplyBelongsToRequest ==
    /\ \A t \in Things : \A k \in DOMAIN fromExec[t] :
          pc[t] = "await_reply" /\ fromExec[t][k].id = cur[t]
    /\ \A t \in Things : pc[t] = "await_exec" => reply[t].id = cur[t]
    /\ \A i \in DOMAIN sent :
          sent[i].type \in {REPLY, EXCEPTION} =>
              /\ sent[i].addr = req[sent[i].id].client
              /\ sent[i].ep = req[sent[i].id].ep

\* the execution of a request of one client timed out, its answer came late
\* and was dropped, and the next request, of the other client, was answered
\* with a REPLY of its own
C31_Witness ==
    \E t \in Things : \E a, b \in Range(enq[t]) :
        /\ Pos(enq[t], a) < Pos(enq[t], b)
        /\ req[a].client # req[b].client
        /\ TimeoutSent(a, "execution")
        /\ RepliesOf(a) = {}
        /\ Finished(a)
        /\ \E i \in RepliesOf(b) : sent[i].addr = req[b].client

\* C32: an invokation timer is started only for a request that is placed on
\* the inbox of a Thing: a message that was not enqueued has no invokation
\* timer and never receives TIMEOUT("invokation").
C32_TimersOnlyForEnqueued ==
    \A id \in DOMAIN req :
        id \notin Enqueued =>
            /\ invT[id] = "none"
            /\ ~TimeoutSent(id, "invokation")

\* a message for an unknown Thing, never enqueued, received TIMEOUT
C32_OrphanTimeout ==
    \E id \in DOMAIN req :
        /\ id \notin Enqueued
        /\ req[id].thing \notin DOMAIN things
        /\ TimeoutSent(id, "invokation")

\* the Dispatcher has taken the request from the inbox
Popped(id) == id \in Enqueued /\ \A t \in Things : id \notin Range(inbox[t])

Running(timers, id) == timers[id] \in {"pending", "set"}

\* C34: a request is forwarded only after its invokation timer, if it has one,
\* has returned without timing out, and its execution timer exists only once
\* it is forwarded: the two timers of a request never run at the same time;
\* and a REPLY or EXCEPTION sent to a client carries the address the client
\* sent the request from, not the thing id put there for routing.
C34_TimersInTurn ==
    /\ \A id \in DOMAIN req : ~(Running(invT, id) /\ Running(exeT, id))
    /\ \A id \in Forwarded : invT[id] \in {"none", "false"}
    /\ \A id \in DOMAIN req : exeT[id] # "none" => id \in Forwarded
    /\ \A i \in DOMAIN sent :
          sent[i].type \in {REPLY, EXCEPTION} =>
              /\ sent[i].addr = req[sent[i].id].client
              /\ sent[i].addr # req[sent[i].id].thing

\* a request with both timeouts passed its invokation timer, was executed
\* within its execution timeout and answered at the address of its client,
\* while the message held the thing id as its address
C34_Witness ==
    \E id \in Forwarded :
        /\ req[id].ctx.inv # None /\ req[id].ctx.exe # None
        /\ invT[id] = "false" /\ exeT[id] = "false"
        /\ req[id].addr = req[id].thing
        /\ \E i \in RepliesOf(id) : sent[i].addr = req[id].client

====
